---------------------------- MODULE Spec2Model ----------------------------
(***************************************************************************)
(* A model of pdf_to_html.py: the batch driver main, convert_pdf_to_html,  *)
(* extract_text_from_pdf and create_html_from_text.                        *)
(*                                                                         *)
(* A text is a run-length encoded string: a sequence of runs [ch, n], the  *)
(* character ch repeated n times.  Characters are taken from one           *)
(* representative per class that str.strip, str.isupper and str.isdigit    *)
(* tell apart.  A file name is a tuple of one-character strings.           *)
(***************************************************************************)
EXTENDS Integers, Sequences, FiniteSets, Bags, TLC

VARIABLES
    entries,       \* os.listdir(pdf_dir), in the order main iterates it
    idx,           \* number of entries main's for loop has taken so far
    pc,            \* "main": at the loop header; "extract": inside the
                   \* extract_pages loop of entries[idx]; "done": main returned
    source,        \* the pages extract_pages has yielded for entries[idx]
    text_content,  \* extract_text_from_pdf's text_content
    extracted,     \* extract_text_from_pdf returned to convert_pdf_to_html
    html_content,  \* convert_pdf_to_html's html_content
    diag,          \* what was printed since "Processing {filename}..."
    fs,            \* the files of the output directory, by path
    fs_entry,      \* history: fs when convert_pdf_to_html was entered
    attempts,      \* history: calls of convert_pdf_to_html per entry
    results        \* history: how the loop body ended per entry

vars == <<entries, idx, pc, source, text_content, extracted, html_content,
          diag, fs, fs_entry, attempts, results>>

-----------------------------------------------------------------------------
(* Bounds *)

MaxRuns == 2        \* runs per text under SpecClassify
MaxPages == 3       \* pages per document under Spec
MaxElems == 3       \* layout elements per document under Spec
MaxFiles == 2       \* directory entries under SpecBatch
BatchMaxPages == 1  \* pages per document under SpecBatch

(* Program constants *)

HeaderMaxLen == 50
FooterMaxLen == 30

-----------------------------------------------------------------------------
(* Characters and texts *)

\* "A": an uppercase letter; "a": a lowercase letter; "Dz": a titlecase
\* letter (U+01C5); "4": a decimal digit; "sup2": SUPERSCRIPT TWO (U+00B2), a
\* digit that is not decimal; "-": punctuation; " ": whitespace.
Chars == {"A", "a", "Dz", "4", "sup2", "-", " "}

IsSpaceChar(c) == c = " "
IsUpperChar(c) == c = "A"
IsLowerChar(c) == c = "a"
IsTitleChar(c) == c = "Dz"
IsDigitChar(c) == c \in {"4", "sup2"}

RunLens == {1, 29, 30, 49, 50}

Run(c, n) == [ch |-> c, n |-> n]

RECURSIVE TextLen(_)
TextLen(text) ==
    IF text = <<>> THEN 0 ELSE Head(text).n + TextLen(Tail(text))

TextChars(text) == {text[i].ch : i \in DOMAIN text}

RECURSIVE LStrip(_)
LStrip(text) ==
    IF text # <<>> /\ IsSpaceChar(Head(text).ch) THEN LStrip(Tail(text))
    ELSE text

RECURSIVE RStrip(_)
RStrip(text) ==
    IF text # <<>> /\ IsSpaceChar(text[Len(text)].ch)
    THEN RStrip(SubSeq(text, 1, Len(text) - 1))
    ELSE text

Strip(text) == RStrip(LStrip(text))

\* str.isupper: no lowercase or titlecase character and at least one
\* uppercase character.
RECURSIVE IsUpperFrom(_, _)
IsUpperFrom(text, cased) ==
    IF text = <<>> THEN cased
    ELSE IF IsLowerChar(Head(text).ch) \/ IsTitleChar(Head(text).ch) THEN FALSE
    ELSE IsUpperFrom(Tail(text), cased \/ IsUpperChar(Head(text).ch))

\* A variant of IsUpper that holds of a text without cased characters.
IsUpperVacuous(text) ==
    \A c \in TextChars(text) : ~IsLowerChar(c) /\ ~IsTitleChar(c)

IsUpper(text) == IsUpperFrom(text, FALSE)

\* str.isdigit: at least one character and every character a digit.
IsDigit(text) == text # <<>> /\ \A c \in TextChars(text) : IsDigitChar(c)

-----------------------------------------------------------------------------
(* File names *)

Lower(name) ==
    [i \in DOMAIN name |->
        CASE name[i] = "P" -> "p"
          [] name[i] = "D" -> "d"
          [] name[i] = "F" -> "f"
          [] OTHER -> name[i]]

EndsWith(name, suffix) ==
    /\ Len(name) >= Len(suffix)
    /\ SubSeq(name, Len(name) - Len(suffix) + 1, Len(name)) = suffix

IsPdf(filename) == EndsWith(Lower(filename), <<".", "p", "d", "f">>)

\* os.path.splitext(name)[0]: the name up to its last dot, unless only dots
\* precede that dot.
SplitextRoot(name) ==
    LET dots == {i \in DOMAIN name : name[i] = "."}
        last == CHOOSE i \in dots : \A j \in dots : j <= i
    IN  IF dots = {} \/ (\A j \in 1..(last - 1) : name[j] = ".") THEN name
        ELSE SubSeq(name, 1, last - 1)

OutputPath(filename) == SplitextRoot(filename) \o <<".", "h", "t", "m", "l">>

-----------------------------------------------------------------------------
(* extract_text_from_pdf *)

NonText == [kind |-> "LTLine"]
TextElem(text, y) == [kind |-> "LTTextContainer", text |-> text, y |-> y]

\* The inner loop over one page_layout.
RECURSIVE PageText(_)
PageText(elems) ==
    IF elems = <<>> THEN <<>>
    ELSE LET element == Head(elems)
             rest == PageText(Tail(elems))
         IN  IF element.kind = "LTTextContainer" /\ Strip(element.text) # <<>>
             THEN <<[text |-> Strip(element.text), y |-> element.y]>> \o rest
             ELSE rest

-----------------------------------------------------------------------------
(* create_html_from_text *)

RECURSIVE InsertBlock(_, _)

\* A variant of InsertBlock that places a block before the blocks of its key.
InsertBlockUnstable(sorted, block) ==
    IF sorted = <<>> THEN <<block>>
    ELSE IF -Head(sorted).y < -block.y
         THEN <<Head(sorted)>> \o InsertBlock(Tail(sorted), block)
         ELSE <<block>> \o sorted

\* A variant of InsertBlock that drops a block whose key is taken.
InsertBlockDedup(sorted, block) ==
    IF sorted = <<>> THEN <<block>>
    ELSE IF -Head(sorted).y < -block.y
         THEN <<Head(sorted)>> \o InsertBlock(Tail(sorted), block)
         ELSE IF -Head(sorted).y = -block.y THEN sorted
         ELSE <<block>> \o sorted

\* sorted(page, key=lambda x: -x['y']), a stable sort: each block is placed
\* behind every block whose key is not greater than its own.
InsertBlock(sorted, block) ==
    IF sorted = <<>> THEN <<block>>
    ELSE IF -Head(sorted).y <= -block.y
         THEN <<Head(sorted)>> \o InsertBlock(Tail(sorted), block)
         ELSE <<block>> \o sorted

RECURSIVE SortedBlocks(_)
SortedBlocks(page) ==
    IF page = <<>> THEN <<>>
    ELSE InsertBlock(SortedBlocks(SubSeq(page, 1, Len(page) - 1)),
                     page[Len(page)])

\* A variant of TextBlock whose Footer rule takes texts of 30 characters.
TextBlockFooterUpTo(block) ==
    LET text == block.text
    IN  [class |->
            IF TextLen(text) < HeaderMaxLen /\ IsUpper(text) THEN <<"header">>
            ELSE IF TextLen(text) <= FooterMaxLen /\ IsDigit(text)
                 THEN <<"footer">>
                 ELSE <<"text-block">>,
         string |-> text]

\* The body of the loop over sorted_blocks: the div, with its class
\* attribute as the list of its class names.  Line 79 sets the attribute to
\* text-block and lines 84 and 86 assign it anew.
TextBlock(block) ==
    LET text == block.text
    IN  [class |->
            IF TextLen(text) < HeaderMaxLen /\ IsUpper(text) THEN <<"header">>
            ELSE IF TextLen(text) < FooterMaxLen /\ IsDigit(text)
                 THEN <<"footer">>
                 ELSE <<"text-block">>,
         string |-> text]

PageDiv(page_num, page) ==
    [class |-> <<"page">>,
     h2 |-> <<"Page", page_num>>,
     blocks |-> [k \in 1..Len(SortedBlocks(page)) |->
                    TextBlock(SortedBlocks(page)[k])]]

\* The body element's page containers; head, title and style are the same
\* for every input.
CreateHtml(tc) == [page_num \in 1..Len(tc) |-> PageDiv(page_num, tc[page_num])]

-----------------------------------------------------------------------------
(* Diagnostics: the print calls, each with the number it formats, if any *)

D(msg, arg) == [msg |-> msg, arg |-> arg]

WarningMsgs == {"Warning: No text found on page",
                "Warning: No text content extracted from PDF"}

ErrorMsgs == {"Error extracting text from PDF",
              "Error creating HTML",
              "Error during conversion",
              "Failed to process"}

Level(d) ==
    IF d.msg \in WarningMsgs THEN "warning"
    ELSE IF d.msg \in ErrorMsgs THEN "error"
    ELSE "info"

HasDiag(msg) == \E i \in DOMAIN diag : diag[i].msg = msg

\* The prints of create_html_from_text's loop over the pages.
RECURSIVE ProcessingDiag(_, _)
ProcessingDiag(tc, page_num) ==
    IF page_num > Len(tc) THEN <<>>
    ELSE <<D("Processing page", page_num)>> \o ProcessingDiag(tc, page_num + 1)

-----------------------------------------------------------------------------
(* The state of the output directory *)

\* html_content before and after line 122.
NoHtml == [rendered |-> FALSE, pages |-> <<>>]
Html(pages) == [rendered |-> TRUE, pages |-> pages]

\* A path of the output directory: no file, a file from before the run, or
\* a file written by line 131.
NoFile == [kind |-> "absent", pages |-> <<>>]
OldFile == [kind |-> "old", pages |-> <<>>]
Written(html) == [kind |-> "written", pages |-> html.pages]

filename == entries[idx]

Ended(how) == [results EXCEPT ![idx] = how]

-----------------------------------------------------------------------------
(* main *)

\* Lines 152-153: the next entry is no PDF.
MainSkip ==
    /\ pc = "main"
    /\ idx < Len(entries)
    /\ ~IsPdf(entries[idx + 1])
    /\ idx' = idx + 1
    /\ results' = [results EXCEPT ![idx + 1] = "skipped"]
    /\ UNCHANGED <<entries, pc, source, text_content, extracted, html_content,
                   diag, fs, fs_entry, attempts>>

\* Lines 152-157 and 103-112: the next entry is a PDF, and
\* convert_pdf_to_html runs up to its call of extract_text_from_pdf.
ConvertStart ==
    /\ pc = "main"
    /\ idx < Len(entries)
    /\ IsPdf(entries[idx + 1])
    /\ idx' = idx + 1
    /\ attempts' = [attempts EXCEPT ![idx + 1] = @ + 1]
    /\ results' = [results EXCEPT ![idx + 1] = "running"]
    /\ diag' = <<D("Processing", 0), D("Extracting text from", 0)>>
    /\ source' = <<>>
    /\ text_content' = <<>>
    /\ extracted' = FALSE
    /\ html_content' = NoHtml
    /\ fs_entry' = fs
    /\ pc' = "extract"
    /\ UNCHANGED <<entries, fs>>

\* Lines 152-159 with 105, 143-145: os.makedirs raises.
ConvertMakedirsFail ==
    /\ pc = "main"
    /\ idx < Len(entries)
    /\ IsPdf(entries[idx + 1])
    /\ idx' = idx + 1
    /\ attempts' = [attempts EXCEPT ![idx + 1] = @ + 1]
    /\ results' = [results EXCEPT ![idx + 1] = "raised"]
    /\ diag' = <<D("Processing", 0), D("Error during conversion", 0),
                 D("Failed to process", 0)>>
    /\ source' = <<>>
    /\ text_content' = <<>>
    /\ extracted' = FALSE
    /\ html_content' = NoHtml
    /\ fs_entry' = fs
    /\ UNCHANGED <<entries, pc, fs>>

\* Line 152: os.listdir's entries are used up.
MainDone ==
    /\ pc = "main"
    /\ idx = Len(entries)
    /\ pc' = "done"
    /\ UNCHANGED <<entries, idx, source, text_content, extracted, html_content,
                   diag, fs, fs_entry, attempts, results>>

-----------------------------------------------------------------------------
(* extract_text_from_pdf, one iteration of its loop per step *)

TotalElems == LET RECURSIVE Sum(_)
                  Sum(pages) == IF pages = <<>> THEN 0
                                ELSE Len(Head(pages)) + Sum(Tail(pages))
              IN  Sum(source)

\* A variant of ExtractPage that appends a page without fragments too.
ExtractPageKeepEmpty(elems) ==
    /\ pc = "extract"
    /\ source' = Append(source, elems)
    /\ diag' = Append(diag, D("Found text blocks on page", Len(text_content) + 1))
    /\ text_content' = Append(text_content, PageText(elems))
    /\ UNCHANGED <<entries, idx, pc, extracted, html_content, fs, fs_entry,
                   attempts, results>>

\* Lines 13-33: extract_pages yields a page with the elements elems.
ExtractPage(elems) ==
    /\ pc = "extract"
    /\ source' = Append(source, elems)
    /\ LET page_text == PageText(elems)
       IN  IF page_text # <<>>
           THEN /\ diag' = Append(diag, D("Found text blocks on page",
                                          Len(text_content) + 1))
                /\ text_content' = Append(text_content, page_text)
           ELSE /\ diag' = Append(diag, D("Warning: No text found on page",
                                          Len(text_content) + 1))
                /\ UNCHANGED text_content
    /\ UNCHANGED <<entries, idx, pc, extracted, html_content, fs, fs_entry,
                   attempts, results>>

\* A variant of ExtractFail that returns the pages extracted so far, which
\* are then rendered and written.
ExtractFailReturnsPartial ==
    /\ pc = "extract"
    /\ text_content # <<>>
    /\ diag' = diag \o <<D("Error extracting text from PDF", 0)>>
    /\ html_content' = Html(CreateHtml(text_content))
    /\ fs' = [fs EXCEPT ![OutputPath(filename)] =
                        Written(Html(CreateHtml(text_content)))]
    /\ results' = Ended("returned")
    /\ pc' = "main"
    /\ UNCHANGED <<entries, idx, source, text_content, extracted, fs_entry,
                   attempts>>

\* A variant of ExtractFail whose exception main does not catch.
ExtractFailAbortsMain ==
    /\ pc = "extract"
    /\ diag' = diag \o <<D("Error extracting text from PDF", 0),
                          D("Error during conversion", 0)>>
    /\ text_content' = <<>>
    /\ results' = Ended("raised")
    /\ pc' = "done"
    /\ UNCHANGED <<entries, idx, source, extracted, html_content, fs, fs_entry,
                   attempts>>

\* Lines 13, 34-36, 143-145, 158-159: extract_pages raises, at its start or
\* after any number of pages; the exception passes through
\* extract_text_from_pdf and convert_pdf_to_html and is caught by main.
ExtractFail ==
    /\ pc = "extract"
    /\ diag' = diag \o <<D("Error extracting text from PDF", 0),
                          D("Error during conversion", 0),
                          D("Failed to process", 0)>>
    /\ text_content' = <<>>
    /\ results' = Ended("raised")
    /\ pc' = "main"
    /\ UNCHANGED <<entries, idx, source, extracted, html_content, fs, fs_entry,
                   attempts>>

-----------------------------------------------------------------------------
(* convert_pdf_to_html, from the return of extract_text_from_pdf *)

\* A variant of ConvertEmpty that goes on to render and write.
ConvertEmptyWrites ==
    /\ pc = "extract"
    /\ text_content = <<>>
    /\ extracted' = TRUE
    /\ diag' = diag \o <<D("Extracted pages of content", Len(text_content)),
                          D("Warning: No text content extracted from PDF", 0)>>
    /\ html_content' = Html(CreateHtml(text_content))
    /\ fs' = [fs EXCEPT ![OutputPath(filename)] =
                        Written(Html(CreateHtml(text_content)))]
    /\ results' = Ended("returned")
    /\ pc' = "main"
    /\ UNCHANGED <<entries, idx, source, text_content, fs_entry, attempts>>

\* Lines 37, 114-118: nothing was extracted.
ConvertEmpty ==
    /\ pc = "extract"
    /\ text_content = <<>>
    /\ extracted' = TRUE
    /\ diag' = diag \o <<D("Extracted pages of content", Len(text_content)),
                          D("Warning: No text content extracted from PDF", 0)>>
    /\ results' = Ended("returned")
    /\ pc' = "main"
    /\ UNCHANGED <<entries, idx, source, text_content, html_content, fs,
                   fs_entry, attempts>>

\* Lines 37, 114-141: the HTML is created and written.  create_html_from_text
\* returns soup.prettify(), which is never empty, so line 124 never holds.
ConvertWrite ==
    /\ pc = "extract"
    /\ text_content # <<>>
    /\ extracted' = TRUE
    /\ html_content' = Html(CreateHtml(text_content))
    /\ diag' = diag \o <<D("Extracted pages of content", Len(text_content)),
                          D("Converting to HTML", 0)>>
                    \o ProcessingDiag(text_content, 1)
                    \o <<D("Generated HTML length", 0), D("Saving HTML to", 0),
                         D("Wrote bytes to file", 0),
                         D("File created successfully", 0),
                         D("Conversion complete", 0)>>
    /\ fs' = [fs EXCEPT ![OutputPath(filename)] =
                        Written(Html(CreateHtml(text_content)))]
    /\ results' = Ended("returned")
    /\ pc' = "main"
    /\ UNCHANGED <<entries, idx, source, text_content, fs_entry, attempts>>

\* Lines 37, 114-130, 143-145, 158-159: open raises, and the file is as it
\* was.
ConvertWriteFail ==
    /\ pc = "extract"
    /\ text_content # <<>>
    /\ extracted' = TRUE
    /\ html_content' = Html(CreateHtml(text_content))
    /\ diag' = diag \o <<D("Extracted pages of content", Len(text_content)),
                          D("Converting to HTML", 0)>>
                    \o ProcessingDiag(text_content, 1)
                    \o <<D("Generated HTML length", 0), D("Saving HTML to", 0),
                         D("Error during conversion", 0),
                         D("Failed to process", 0)>>
    /\ results' = Ended("raised")
    /\ pc' = "main"
    /\ UNCHANGED <<entries, idx, source, text_content, fs, fs_entry, attempts>>

-----------------------------------------------------------------------------
(* Inputs *)

Runs == {Run(c, n) : c \in Chars, n \in RunLens}

Texts == UNION {[1..k -> Runs] : k \in 1..MaxRuns}

\* The text elements " ", "A" and " a ", the latter two at either height.
Ys == {10, 20}

Elements ==
    {NonText, TextElem(<<Run(" ", 1)>>, 10)}
    \cup {TextElem(t, y) :
            t \in {<<Run("A", 1)>>, <<Run(" ", 1), Run("a", 1), Run(" ", 1)>>},
            y \in Ys}

PagesOf(k) == [1..k -> Elements]

ClassifyInputs == {<<TextElem(t, 10)>> : t \in Texts}

BatchInputs == {<<>>, <<TextElem(<<Run("a", 1)>>, 10)>>}

DocName == <<"a", ".", "p", "d", "f">>
TxtName == <<"n", ".", "t", "x", "t">>

FileNames == {DocName,
              <<"a", ".", "P", "D", "F">>,
              <<".", "P", "d", "f">>,
              <<"p", "d", "f">>,
              <<"b", ".", "p", "d", "f", "x">>,
              TxtName}

\* os.listdir: distinct names, in any order.
Listings ==
    {e \in UNION {[1..k -> FileNames] : k \in 0..MaxFiles} :
        \A i, j \in DOMAIN e : i # j => e[i] # e[j]}

OutputPaths == {OutputPath(n) : n \in FileNames}

EmptyDir == [p \in OutputPaths |-> NoFile]

-----------------------------------------------------------------------------
(* Specifications *)

InitWith(listings, dirs) ==
    /\ entries \in listings
    /\ idx = 0
    /\ pc = "main"
    /\ source = <<>>
    /\ text_content = <<>>
    /\ extracted = FALSE
    /\ html_content = NoHtml
    /\ diag = <<>>
    /\ fs \in dirs
    /\ fs_entry = fs
    /\ attempts = [i \in DOMAIN entries |-> 0]
    /\ results = [i \in DOMAIN entries |-> "pending"]

\* A file that is no PDF and one document of up to MaxPages pages and
\* MaxElems layout elements; the output file may exist already.
Init ==
    InitWith({<<TxtName, DocName>>},
             {EmptyDir, [EmptyDir EXCEPT ![OutputPath(DocName)] = OldFile]})

Next ==
    \/ MainSkip
    \/ ConvertStart
    \/ ConvertMakedirsFail
    \/ /\ pc = "extract"
       /\ Len(source) < MaxPages
       /\ \E k \in 0..(MaxElems - TotalElems) : \E elems \in PagesOf(k) :
             ExtractPage(elems)
    \/ ExtractFail
    \/ ConvertEmpty
    \/ ConvertWrite
    \/ ConvertWriteFail
    \/ MainDone

Spec == Init /\ [][Next]_vars

\* One document of one page holding one text element, over all the texts
\* of up to MaxRuns runs.
InitClassify == InitWith({<<DocName>>}, {EmptyDir})

NextClassify ==
    \/ ConvertStart
    \/ /\ pc = "extract"
       /\ Len(source) < 1
       /\ \E elems \in ClassifyInputs : ExtractPage(elems)
    \/ ConvertEmpty
    \/ ConvertWrite
    \/ MainDone

SpecClassify == InitClassify /\ [][NextClassify]_vars

\* A directory of up to MaxFiles entries, each PDF of up to BatchMaxPages
\* pages.
InitBatch == InitWith(Listings, {EmptyDir})

NextBatch ==
    \/ MainSkip
    \/ ConvertStart
    \/ ConvertMakedirsFail
    \/ /\ pc = "extract"
       /\ Len(source) < BatchMaxPages
       /\ \E elems \in BatchInputs : ExtractPage(elems)
    \/ ExtractFail
    \/ ConvertEmpty
    \/ ConvertWrite
    \/ ConvertWriteFail
    \/ MainDone

SpecBatch == InitBatch /\ [][NextBatch]_vars

-----------------------------------------------------------------------------
(* What the claims speak of *)

Pages == html_content.pages

Blocks ==
    UNION {{Pages[p].blocks[k] : k \in DOMAIN Pages[p].blocks} :
             p \in DOMAIN Pages}

HasClass(b, c) == \E i \in DOMAIN b.class : b.class[i] = c

Role(b) ==
    IF HasClass(b, "header") THEN "Header"
    ELSE IF HasClass(b, "footer") THEN "Footer"
    ELSE "Body"

IsDecimalChar(c) == c = "4"
IsAlphaChar(c) == c \in {"A", "a", "Dz"}

HasAlpha(text) == \E c \in TextChars(text) : IsAlphaChar(c)
AllAlphaUpper(text) == \A c \in TextChars(text) : IsAlphaChar(c) => IsUpperChar(c)
AllDecimal(text) == text # <<>> /\ \A c \in TextChars(text) : IsDecimalChar(c)
AllDigits(text) == text # <<>> /\ \A c \in TextChars(text) : IsDigitChar(c)
HeaderRule(text) == TextLen(text) < 50 /\ HasAlpha(text) /\ AllAlphaUpper(text)

\* A layout element that yields a fragment: a text element with a character
\* that is no whitespace.
IsRetained(element) ==
    /\ element.kind = "LTTextContainer"
    /\ \E i \in DOMAIN element.text : ~IsSpaceChar(element.text[i].ch)

HasContent(elems) == \E i \in DOMAIN elems : IsRetained(elems[i])

ContentPages == {i \in DOMAIN source : HasContent(source[i])}
DroppedPages == {i \in DOMAIN source : ~HasContent(source[i])}

\* The k-th smallest member of a set of numbers.
Nth(S, k) == CHOOSE i \in S : Cardinality({j \in S : j <= i}) = k

\* The multiset of the values f[i], i in I.
BagOf(f, I) ==
    [v \in {f[i] : i \in I} |-> Cardinality({i \in I : f[i] = v})]

BlockTexts(page_div) ==
    BagOf([k \in DOMAIN page_div.blocks |-> page_div.blocks[k].string],
          DOMAIN page_div.blocks)

RetainedTexts(elems) ==
    BagOf([i \in DOMAIN elems |->
              IF IsRetained(elems[i]) THEN Strip(elems[i].text) ELSE <<>>],
          {i \in DOMAIN elems : IsRetained(elems[i])})

NoTextWarnings ==
    SelectSeq(diag, LAMBDA d : d.msg = "Warning: No text found on page")

Finished == idx >= 1 /\ pc # "extract" /\ results[idx] \in {"returned", "raised"}

-----------------------------------------------------------------------------
(* Claims *)

\* C1, as stated: a text shorter than 50 characters in which every alphabetic
\* character is uppercase gets the Header role, also when it holds no
\* alphabetic character at all.
C1_AsStated ==
    \A b \in Blocks :
        TextLen(b.string) < 50 /\ AllAlphaUpper(b.string) => Role(b) = "Header"

\* C1, amended: a text shorter than 50 characters that holds an alphabetic
\* character and in which every alphabetic character is uppercase gets the
\* Header role; a text that holds no alphabetic character never does.
C1_HeaderNeedsUppercase ==
    \A b \in Blocks :
        /\ HeaderRule(b.string) => Role(b) = "Header"
        /\ ~HasAlpha(b.string) => Role(b) # "Header"

C1_Witness ==
    \E b \in Blocks :
        TextLen(b.string) = 49 /\ HasAlpha(b.string) /\ Role(b) = "Header"

\* C2: every block element carries the class text-block, a Header block
\* carries header beside it, a Footer block carries footer beside it, and a
\* Body block carries text-block alone.
C2_RoleClassAppended ==
    \A b \in Blocks :
        /\ HasClass(b, "text-block")
        /\ Role(b) = "Header" => b.class = <<"text-block", "header">>
        /\ Role(b) = "Footer" => b.class = <<"text-block", "footer">>
        /\ Role(b) = "Body" => b.class = <<"text-block">>

\* C3: the output holds one page container per source page that has a
\* retained fragment, in the order of the source pages, with the headings
\* Page 1 .. Page k by position in the output.
C3_PagesRenumbered ==
    html_content.rendered =>
        /\ Len(Pages) = Cardinality(ContentPages)
        /\ \A k \in DOMAIN Pages :
              /\ Pages[k].class = <<"page">>
              /\ Pages[k].h2 = <<"Page", k>>
              /\ BlockTexts(Pages[k])
                    = RetainedTexts(source[Nth(ContentPages, k)])

C3_Witness ==
    /\ html_content.rendered
    /\ Len(source) = 3
    /\ ContentPages = {1, 3}
    /\ Len(Pages) = 2
    /\ Pages[2].h2 = <<"Page", 2>>

\* C4: each dropped source page has one warning, which carries the page's
\* index in the source document.
C4_WarningCarriesSourceIndex ==
    /\ Len(NoTextWarnings) = Cardinality(DroppedPages)
    /\ \A k \in DOMAIN NoTextWarnings :
          NoTextWarnings[k].arg = Nth(DroppedPages, k)

\* C5: the blocks of a page are its fragments in descending y, fragments of
\* equal y in the order of their extraction.
C5_StableDescendingY ==
    html_content.rendered =>
        \A p \in DOMAIN Pages :
            LET page == text_content[p]
                blocks == Pages[p].blocks
                n == Len(page)
            IN  /\ Len(blocks) = n
                /\ \E pi \in [1..n -> 1..n] :
                      /\ \A k \in 1..n : blocks[k].string = page[pi[k]].text
                      /\ \A i, j \in 1..n :
                            i < j =>
                               \/ page[pi[i]].y > page[pi[j]].y
                               \/ /\ page[pi[i]].y = page[pi[j]].y
                                  /\ pi[i] < pi[j]

C5_Witness ==
    /\ html_content.rendered
    /\ \E p \in DOMAIN text_content :
          LET page == text_content[p]
          IN  /\ Len(page) = 3
              /\ page[1].y = 10 /\ page[2].y = 20 /\ page[3].y = 10
              /\ page[1].text # page[3].text
              /\ Pages[p].blocks[1].string = page[2].text
              /\ Pages[p].blocks[2].string = page[1].text

\* C6: main calls convert_pdf_to_html once for each entry whose name ends in
\* .pdf in any letter case and for no other, and returns only when it has
\* gone through every entry, whatever the earlier conversions raised.
PdfNamed(name) ==
    LET n == Len(name)
    IN  /\ n >= 4
        /\ name[n - 3] = "."
        /\ name[n - 2] \in {"p", "P"}
        /\ name[n - 1] \in {"d", "D"}
        /\ name[n] \in {"f", "F"}

C6_EveryPdfAttemptedOnce ==
    /\ \A i \in DOMAIN entries :
          attempts[i] = IF i <= idx /\ PdfNamed(entries[i]) THEN 1 ELSE 0
    /\ pc = "done" => idx = Len(entries)

C6_Witness ==
    /\ pc = "done"
    /\ Len(entries) = 2
    /\ results[1] = "raised"
    /\ entries[2] # Lower(entries[2])
    /\ attempts[2] = 1

\* C7: when the extraction has returned and no page has a retained fragment,
\* convert_pdf_to_html has returned without raising, nothing was rendered,
\* the output directory is as it was, the warning was printed and no error
\* was.
C7_EmptyContentIsNoOp ==
    Finished /\ extracted /\ ContentPages = {} =>
        /\ results[idx] = "returned"
        /\ ~html_content.rendered
        /\ fs = fs_entry
        /\ HasDiag("Warning: No text content extracted from PDF")
        /\ \A i \in DOMAIN diag : Level(diag[i]) # "error"

C7_Witness ==
    /\ Finished /\ extracted /\ ContentPages = {}
    /\ Len(source) = 2
    /\ fs[OutputPath(filename)] = OldFile

\* C8: when the extractor has failed, extract_text_from_pdf has not
\* returned, convert_pdf_to_html has raised, nothing was rendered and the
\* output directory is as it was.
C8_ExtractionFailurePropagates ==
    HasDiag("Error extracting text from PDF") =>
        /\ ~extracted
        /\ results[idx] = "raised"
        /\ ~html_content.rendered
        /\ fs = fs_entry

C8_Witness ==
    /\ HasDiag("Error extracting text from PDF")
    /\ Len(source) = 2
    /\ ContentPages = {1, 2}
    /\ fs[OutputPath(filename)] = OldFile

\* C9, as stated: a non-empty text shorter than 30 characters of decimal
\* digits only is a Footer, and a text that neither the Header rule nor this
\* rule matches is Body.
C9_AsStated ==
    \A b \in Blocks :
        /\ TextLen(b.string) < 30 /\ AllDecimal(b.string) => Role(b) = "Footer"
        /\ ~HeaderRule(b.string) /\ ~(TextLen(b.string) < 30 /\ AllDecimal(b.string))
              => Role(b) = "Body"

\* C9, amended: a non-empty text shorter than 30 characters of digits only,
\* decimal or not, is a Footer, and a text that neither the Header rule nor
\* this rule matches is Body.
C9_DigitsAreFooter ==
    \A b \in Blocks :
        /\ TextLen(b.string) < 30 /\ AllDigits(b.string) => Role(b) = "Footer"
        /\ ~HeaderRule(b.string) /\ ~(TextLen(b.string) < 30 /\ AllDigits(b.string))
              => Role(b) = "Body"

C9_Witness ==
    \E b \in Blocks :
        TextLen(b.string) = 29 /\ AllDecimal(b.string) /\ Role(b) = "Footer"

\* C10: each output page has as many blocks as its source page has retained
\* fragments, and the multiset of their texts is that of the stripped texts
\* of the fragments.
C10_FragmentsPreserved ==
    html_content.rendered =>
        /\ Len(Pages) = Len(text_content)
        /\ \A k \in DOMAIN Pages :
              LET elems == source[Nth(ContentPages, k)]
              IN  /\ Len(Pages[k].blocks)
                        = Cardinality({i \in DOMAIN elems : IsRetained(elems[i])})
                  /\ Len(Pages[k].blocks) = Len(text_content[k])
                  /\ BlockTexts(Pages[k]) = RetainedTexts(elems)

C10_Witness ==
    /\ html_content.rendered
    /\ \E k \in DOMAIN Pages :
          LET elems == source[Nth(ContentPages, k)]
          IN  /\ Len(elems) = 3
              /\ Len(Pages[k].blocks) = 2
              /\ Pages[k].blocks[1] = Pages[k].blocks[2]

=============================================================================
